---- MODULE Spec2Model ----
(***************************************************************************)
(* Model of src/testgss/src/main.rs: the GSS-API security-context wrappers *)
(* ServerCtx and ClientCtx, their lock-guarded state machines, and the     *)
(* ownership of the foreign context and delegated-credential handles.      *)
(***************************************************************************)
EXTENDS Integers, Sequences, FiniteSets, TLC

VARIABLES
    sInner,       \* the value guarded by ServerCtx's mutex (ServerCtxInner)
    cInner,       \* the value guarded by ClientCtx's mutex (ClientCtxInner)
    lock,         \* per context: the thread holding the mutex, or NoThread
    pc,           \* per thread: position inside a step call
    loc,          \* per thread: the locals of the step call in progress
    res,          \* per thread: the value returned by its last step call
    arcs,         \* the Arc<CredInner> allocations made for delegated creds
    ctxDeleted,   \* per context handle: gss_delete_sec_context calls made
    credReleased, \* per credential handle: gss_release_cred calls made
    nAccept,      \* gss_accept_sec_context calls issued
    nInit,        \* gss_init_sec_context calls issued
    nReused,      \* times a step kept the tracked delegated Cred
    nextCtx,      \* next context handle the library will allocate
    nSteps,       \* step calls started
    hs,           \* progress of the caller through the handshake scenario
    own,          \* the Arc<NameInner> and Arc<CredInner> allocations of callers
    ownReleased,  \* per name or credential handle: release calls made
    nextH,        \* next name or credential handle the library will allocate
    bufs,         \* the Buf values made by Name::display
    acq,          \* the arguments of the last gss_acquire_cred call
    oidSets,      \* OID sets created and released by Cred::acquire
    fmt           \* Error::fmt_code: its position, locals and output

ctxVars == <<sInner, cInner, lock, pc, loc, res, arcs, ctxDeleted, credReleased,
             nAccept, nInit, nReused, nextCtx, nSteps, hs>>

ownVars == <<own, ownReleased, nextH, bufs, acq, oidSets>>

fmtVars == <<fmt>>

vars == <<ctxVars, ownVars, fmtVars>>

---------------------------------------------------------------------------
(* Bounds *)

MaxSteps == 3
MaxDeleg == 2
MaxTok == 1
MaxCtx == 2
MaxOwn == 2
MaxRefs == 2
MaxBufs == 2
MaxMsgs == 3

---------------------------------------------------------------------------
(* Constants of the underlying library (libgssapi_sys) *)

GSS_S_COMPLETE == 0
GSS_C_CALLING_ERROR_OFFSET == 24
GSS_C_ROUTINE_ERROR_OFFSET == 16
GSS_C_CALLING_ERROR_MASK == 255
GSS_C_ROUTINE_ERROR_MASK == 255
GSS_C_CONTINUE_NEEDED == 1
GSS_C_BOTH == 0
GSS_C_INITIATE == 1
GSS_C_ACCEPT == 2

\* _GSS_C_INDEFINITE is 0xffffffff; an OM_uint32 lifetime is held as its
\* two 16-bit halves, high half first
GSS_C_INDEFINITE == <<65535, 65535>>

NULL == 0
NoThread == "none"
Threads == {"t1", "t2"}
Contexts == {"server", "client"}
Tokens == 1..MaxTok
DelegHandles == 1..MaxDeleg
CtxHandles == 1..MaxCtx

\* major statuses the library is taken to return: complete, continue-needed,
\* GSS_S_FAILURE, GSS_S_FAILURE with continue-needed, and a calling error
Majors == {0, 1, 851968, 851969, 16777216}
Minors == {0, 1}

---------------------------------------------------------------------------
(* OM_uint32 arithmetic. A status word is a number below 2^31; a mask is   *)
(* held as the set of its bit positions, since 0xff << 24 is beyond the   *)
(* integers TLC computes with.                                             *)

RECURSIVE Pow2(_)
Pow2(n) == IF n = 0 THEN 1 ELSE 2 * Pow2(n - 1)

Bit(x, i) == (x \div Pow2(i)) % 2

\* the bit positions of (m << off) within 32 bits
ShlBits(m, off) ==
    {i + off : i \in {j \in 0..(IF off = 0 THEN 30 ELSE 31 - off) : Bit(m, j) = 1}}

\* x & mask, for a mask given by its bit positions; i is the position of
\* x's lowest bit
RECURSIVE AndBits(_, _, _)
AndBits(x, bits, i) ==
    IF x = 0 THEN 0
    ELSE (IF x % 2 = 1 /\ i \in bits THEN 1 ELSE 0) + 2 * AndBits(x \div 2, bits, i + 1)

\* (_GSS_C_CALLING_ERROR_MASK << GSS_C_CALLING_ERROR_OFFSET)
\*  | (_GSS_C_ROUTINE_ERROR_MASK << GSS_C_ROUTINE_ERROR_OFFSET)
ErrorBits ==
    ShlBits(GSS_C_CALLING_ERROR_MASK, GSS_C_CALLING_ERROR_OFFSET)
    \cup ShlBits(GSS_C_ROUTINE_ERROR_MASK, GSS_C_ROUTINE_ERROR_OFFSET)

ContinueBits == ShlBits(GSS_C_CONTINUE_NEEDED, 0)

gss_error(x) == AndBits(x, ErrorBits, 0)

---------------------------------------------------------------------------
(* State values *)

NoErr == <<0, 0>>

\* ServerCtxInner (AcceptCtxInner): Failed(e) | Uninit(cred) |
\* Partial{ctx, cred, delegated_cred} | Complete{ctx, delegated_cred}
SUninit == [tag |-> "Uninit", ctx |-> NULL, deleg |-> 0, err |-> NoErr]
SPartial(ctx, d) == [tag |-> "Partial", ctx |-> ctx, deleg |-> d, err |-> NoErr]
SComplete(ctx, d) == [tag |-> "Complete", ctx |-> ctx, deleg |-> d, err |-> NoErr]
SFailed(e) == [tag |-> "Failed", ctx |-> NULL, deleg |-> 0, err |-> e]
Dropped == [tag |-> "Dropped", ctx |-> NULL, deleg |-> 0, err |-> NoErr]

\* ClientCtxInner: Failed(e) | Uninit(cred) | Partial{ctx, cred} | Complete(ctx)
CUninit == [tag |-> "Uninit", ctx |-> NULL, deleg |-> 0, err |-> NoErr]

LocNone == [who |-> "none", tok |-> 0, read |-> Dropped, ctx |-> NULL, cur |-> 0,
            major |-> 0, minor |-> 0, out |-> 0, deleg |-> NULL]

\* Result<Option<Buf>, Error>; "Unit" is a body that ends without a value
ResNone == [kind |-> "none", out |-> 0, err |-> NoErr]
OkNone == [kind |-> "OkNone", out |-> 0, err |-> NoErr]
OkSome(b) == [kind |-> "OkSome", out |-> b, err |-> NoErr]
Err(e) == [kind |-> "Err", out |-> 0, err |-> e]
Unit == [kind |-> "Unit", out |-> 0, err |-> NoErr]

---------------------------------------------------------------------------
(* Reference-counted Cred wrappers: Cred(Arc<CredInner>) *)

\* Arc::new(CredInner(h)): a new allocation with one strong reference
ArcNew(a, h) == Append(a, [h |-> h, rc |-> 1])

\* Cred::clone (an Option<Cred> of None is id 0)
ArcClone(a, id) ==
    IF id = 0 THEN a ELSE [a EXCEPT ![id].rc = @ + 1]

\* dropping one Cred: the count goes down by one
ArcDrop(a, id) ==
    IF id = 0 THEN a ELSE [a EXCEPT ![id].rc = @ - 1]

ReleasedBy_EveryDrop(a, id) ==
    IF id = 0 THEN {} ELSE {a[id].h}

\* Drop for CredInner (and for NameInner) runs when the last reference goes:
\* gss_release_cred (gss_release_name)
ReleasedBy(a, id) ==
    IF id # 0 /\ a[id].rc = 1 THEN {a[id].h} ELSE {}

\* drop the Creds ids (a sequence of ids, 0 for None) one after the other,
\* counting the gss_release_cred calls made
RECURSIVE DropAll(_, _, _)
DropAll(a, rel, ids) ==
    IF ids = <<>> THEN [arcs |-> a, rel |-> rel]
    ELSE LET id == Head(ids)
             hs1 == ReleasedBy(a, id)
         IN DropAll(ArcDrop(a, id),
                    [h \in DOMAIN rel |-> IF h \in hs1 THEN rel[h] + 1 ELSE rel[h]],
                    Tail(ids))

---------------------------------------------------------------------------
(* Context handles *)

\* delete_ctx: gss_delete_sec_context is called unless the handle is null
delete_ctx(del, ctx) ==
    IF ctx # NULL THEN [del EXCEPT ![ctx] = @ + 1] ELSE del

\* Drop for ServerCtxInner / ClientCtxInner: Partial and Complete delete
\* their context handle, Failed and Uninit do nothing
DropInner(del, inner) ==
    IF inner.tag \in {"Partial", "Complete"} THEN delete_ctx(del, inner.ctx) ELSE del

---------------------------------------------------------------------------
(* The mutex *)

LockAvailable_NoMutex(holder) == TRUE

\* parking_lot::Mutex::lock blocks until no thread holds the mutex
LockAvailable(holder) == holder = NoThread

Inner(who) == IF who = "server" THEN sInner ELSE cInner

---------------------------------------------------------------------------
(* ServerCtx::step, the match on the state *)

ServerMatch_CompleteFallsThrough(inner) ==
    CASE inner.tag = "Uninit" ->
            [ret |-> FALSE, val |-> ResNone, ctx |-> NULL, cur |-> 0]
      [] inner.tag = "Failed" ->
            [ret |-> TRUE, val |-> Err(inner.err), ctx |-> NULL, cur |-> 0]
      [] OTHER ->
            [ret |-> FALSE, val |-> ResNone, ctx |-> inner.ctx, cur |-> inner.deleg]

ServerMatch_FailedDropsMinor(inner) ==
    CASE inner.tag = "Uninit" ->
            [ret |-> FALSE, val |-> ResNone, ctx |-> NULL, cur |-> 0]
      [] inner.tag = "Partial" ->
            [ret |-> FALSE, val |-> ResNone, ctx |-> inner.ctx, cur |-> inner.deleg]
      [] inner.tag = "Complete" ->
            [ret |-> TRUE, val |-> OkNone, ctx |-> NULL, cur |-> 0]
      [] inner.tag = "Failed" ->
            [ret |-> TRUE, val |-> Err(<<inner.err[1], GSS_S_COMPLETE>>),
             ctx |-> NULL, cur |-> 0]

ServerMatch_PartialPassesNull(inner) ==
    CASE inner.tag = "Uninit" ->
            [ret |-> FALSE, val |-> ResNone, ctx |-> NULL, cur |-> 0]
      [] inner.tag = "Partial" ->
            [ret |-> FALSE, val |-> ResNone, ctx |-> NULL, cur |-> inner.deleg]
      [] inner.tag = "Complete" ->
            [ret |-> TRUE, val |-> OkNone, ctx |-> NULL, cur |-> 0]
      [] inner.tag = "Failed" ->
            [ret |-> TRUE, val |-> Err(inner.err), ctx |-> NULL, cur |-> 0]

ServerMatch_FailedRetries(inner) ==
    CASE inner.tag = "Uninit" ->
            [ret |-> FALSE, val |-> ResNone, ctx |-> NULL, cur |-> 0]
      [] inner.tag = "Partial" ->
            [ret |-> FALSE, val |-> ResNone, ctx |-> inner.ctx, cur |-> inner.deleg]
      [] inner.tag = "Complete" ->
            [ret |-> TRUE, val |-> OkNone, ctx |-> NULL, cur |-> 0]
      [] inner.tag = "Failed" ->
            [ret |-> FALSE, val |-> ResNone, ctx |-> NULL, cur |-> 0]

\* ret: the arm returns at once with val; otherwise ctx and cur are the
\* context handle and the (cloned) delegated Cred the call goes on with
ServerMatch(inner) ==
    CASE inner.tag = "Uninit" ->
            [ret |-> FALSE, val |-> ResNone, ctx |-> NULL, cur |-> 0]
      [] inner.tag = "Partial" ->
            [ret |-> FALSE, val |-> ResNone, ctx |-> inner.ctx, cur |-> inner.deleg]
      [] inner.tag = "Complete" ->
            [ret |-> TRUE, val |-> OkNone, ctx |-> NULL, cur |-> 0]
      [] inner.tag = "Failed" ->
            [ret |-> TRUE, val |-> Err(inner.err), ctx |-> NULL, cur |-> 0]

\* ClientCtx::step, the match on the state
ClientMatch(inner) ==
    CASE inner.tag = "Uninit" ->
            [ret |-> FALSE, val |-> ResNone, ctx |-> NULL, cur |-> 0]
      [] inner.tag = "Partial" ->
            [ret |-> FALSE, val |-> ResNone, ctx |-> inner.ctx, cur |-> 0]
      [] inner.tag = "Failed" ->
            [ret |-> TRUE, val |-> Err(inner.err), ctx |-> NULL, cur |-> 0]
      [] inner.tag = "Complete" ->
            [ret |-> TRUE, val |-> OkNone, ctx |-> NULL, cur |-> 0]

---------------------------------------------------------------------------
(* ServerCtx::step, after gss_accept_sec_context has returned *)

ResolveDelegated_AlwaysNew(a, cur, raw) ==
    IF raw = NULL THEN [d |-> 0, arcs |-> a, drop |-> cur]
    ELSE [d |-> Len(a) + 1, arcs |-> ArcNew(a, raw), drop |-> cur]

ResolveDelegated_LeaksCurrent(a, cur, raw) ==
    IF raw = NULL THEN [d |-> 0, arcs |-> a, drop |-> 0]
    ELSE IF cur = 0 THEN [d |-> Len(a) + 1, arcs |-> ArcNew(a, raw), drop |-> 0]
    ELSE IF a[cur].h = raw THEN [d |-> cur, arcs |-> a, drop |-> 0]
    ELSE [d |-> Len(a) + 1, arcs |-> ArcNew(a, raw), drop |-> 0]

\* d: the Option<Cred> the step goes on with; arcs: the allocations after
\* it; drop: the clone of the tracked Cred that the step lets go of
ResolveDelegated(a, cur, raw) ==
    IF raw = NULL THEN [d |-> 0, arcs |-> a, drop |-> cur]
    ELSE IF cur = 0 THEN [d |-> Len(a) + 1, arcs |-> ArcNew(a, raw), drop |-> 0]
    ELSE IF a[cur].h = raw THEN [d |-> cur, arcs |-> a, drop |-> 0]
    ELSE [d |-> Len(a) + 1, arcs |-> ArcNew(a, raw), drop |-> cur]

Classify_ContinueFirst(major) ==
    IF AndBits(major, ContinueBits, 0) > 0 THEN "Partial"
    ELSE IF gss_error(major) > 0 THEN "Failed"
    ELSE "Complete"

\* the if / else if / else on the major status
Classify(major) ==
    IF gss_error(major) > 0 THEN "Failed"
    ELSE IF AndBits(major, ContinueBits, 0) > 0 THEN "Partial"
    ELSE "Complete"

---------------------------------------------------------------------------
(* The underlying library *)

\* the context handle gss_accept_sec_context leaves in *context_handle:
\* without error, a new context on the first call and the same one later;
\* on error, the handle as it was, null (the library deleted the context)
\* or, on the first call, a partially built context
LibCtxOut(ctxIn, major, fresh) ==
    IF gss_error(major) = 0
    THEN {IF ctxIn = NULL THEN fresh ELSE ctxIn}
    ELSE {ctxIn, NULL} \cup (IF ctxIn = NULL THEN {fresh} ELSE {})

---------------------------------------------------------------------------
(* The caller's end-to-end scenario: client step(None), server step(T1),   *)
(* client step(Some(T2)), with no error reported by the library            *)

HsStep(h, who, tok, libOk) ==
    IF h = 0 /\ who = "client" /\ tok = 0 THEN 1
    ELSE IF h = 1 /\ who = "server" /\ libOk THEN 2
    ELSE IF h = 2 /\ who = "client" /\ tok # 0 THEN 3
    ELSE -1

---------------------------------------------------------------------------
(* Names, credentials and buffers held by callers *)

OwnHandles == 1..MaxOwn

\* Option<T>: None is the empty set, Some(x) is {x}
None == {}
Some(x) == {x}
Unwrap(opt) == CHOOSE x \in opt : TRUE

\* the lifetimes a caller asks for: none, zero, one hour
TimeReqs == {None, Some(<<0, 0>>), Some(<<0, 3600>>)}

CredUsages == {"Accept", "Initiate", "Both"}

NoAcquire == [called |-> FALSE, nameIn |-> None, timeIn |-> None,
              usageIn |-> "Both", name |-> NULL, time |-> <<0, 0>>,
              usage |-> GSS_C_BOTH]

---------------------------------------------------------------------------
(* Error::fmt_code *)

\* the codes rendered: one the library knows and one it may not
Codes == {0, 851968}

\* the message texts gss_display_status writes
Msgs == {"m1", "m2"}

\* the values gss_display_status leaves in message_context
Cursors == {0, 1}

\* the statuses of gss_display_status and gss_release_buffer: GSS_S_COMPLETE
\* and GSS_S_FAILURE
FmtMajors == {GSS_S_COMPLETE, 851968}

\* the line written by write!(f, "gssapi error {}\n", s)
ErrorLine(s) == [text |-> "gssapi error", arg |-> s]

\* the line written by write!(f, "gssapi unknown error code {}\n", code)
UnknownLine(code) == [text |-> "gssapi unknown error code", arg |-> code]

\* not inside fmt_code
FmtIdle == [pc |-> "idle", code |-> 0, cursor |-> 0, major |-> GSS_S_COMPLETE,
            buf |-> NULL, wrote |-> TRUE, out |-> <<>>, lib |-> <<>>,
            nDisplay |-> 0, nRelease |-> 0, relMajor |-> GSS_S_COMPLETE,
            result |-> "none"]

---------------------------------------------------------------------------
(* Initial state: ServerCtx::new and ClientCtx::new *)

Init ==
    /\ sInner = SUninit
    /\ cInner = CUninit
    /\ lock = [c \in Contexts |-> NoThread]
    /\ pc = [t \in Threads |-> "idle"]
    /\ loc = [t \in Threads |-> LocNone]
    /\ res = [t \in Threads |-> ResNone]
    /\ arcs = <<>>
    /\ ctxDeleted = [h \in CtxHandles |-> 0]
    /\ credReleased = [h \in DelegHandles |-> 0]
    /\ nAccept = 0
    /\ nInit = 0
    /\ nReused = 0
    /\ nextCtx = 1
    /\ nSteps = 0
    /\ hs = 0
    /\ own = <<>>
    /\ ownReleased = [h \in OwnHandles |-> 0]
    /\ nextH = 1
    /\ bufs = <<>>
    /\ acq = NoAcquire
    /\ oidSets = [created |-> 0, released |-> 0]
    /\ fmt = FmtIdle

---------------------------------------------------------------------------
(* Actions *)

\* a thread calls step on a context it holds a clone of
StepCall(t, who, tok) ==
    /\ pc[t] = "idle"
    /\ nSteps < MaxSteps
    /\ Inner(who).tag # "Dropped"
    /\ who = "server" => tok # 0
    /\ pc' = [pc EXCEPT ![t] = "waiting"]
    /\ loc' = [loc EXCEPT ![t] = [LocNone EXCEPT !.who = who, !.tok = tok]]
    /\ res' = [res EXCEPT ![t] = ResNone]
    /\ nSteps' = nSteps + 1
    /\ UNCHANGED <<sInner, cInner, lock, arcs, ctxDeleted, credReleased,
                   nAccept, nextCtx, hs, nInit, nReused>>
    /\ UNCHANGED <<ownVars, fmtVars>>

\* let mut inner = self.lock();
StepLock(t) ==
    /\ pc[t] = "waiting"
    /\ LockAvailable(lock[loc[t].who])
    /\ lock' = [lock EXCEPT ![loc[t].who] = t]
    /\ pc' = [pc EXCEPT ![t] = "locked"]
    /\ UNCHANGED <<sInner, cInner, loc, res, arcs, ctxDeleted, credReleased,
                   nAccept, nextCtx, nSteps, hs, nInit, nReused>>
    /\ UNCHANGED <<ownVars, fmtVars>>

Return_KeepsLock(t, val, libOk) ==
    /\ res' = [res EXCEPT ![t] = val]
    /\ lock' = lock
    /\ pc' = [pc EXCEPT ![t] = "idle"]
    /\ loc' = [loc EXCEPT ![t] = LocNone]
    /\ hs' = HsStep(hs, loc[t].who, loc[t].tok, libOk)

\* the return leaves the function: the guard is dropped, the call is over
Return(t, val, libOk) ==
    /\ res' = [res EXCEPT ![t] = val]
    /\ lock' = [lock EXCEPT ![loc[t].who] = NoThread]
    /\ pc' = [pc EXCEPT ![t] = "idle"]
    /\ loc' = [loc EXCEPT ![t] = LocNone]
    /\ hs' = HsStep(hs, loc[t].who, loc[t].tok, libOk)

\* ServerCtx::step: the Complete and Failed arms return at once
ServerReturnEarly(t) ==
    /\ pc[t] = "locked"
    /\ loc[t].who = "server"
    /\ ServerMatch(sInner).ret
    /\ Return(t, ServerMatch(sInner).val, TRUE)
    /\ UNCHANGED <<sInner, cInner, arcs, ctxDeleted, credReleased,
                   nAccept, nextCtx, nSteps, nInit, nReused>>
    /\ UNCHANGED <<ownVars, fmtVars>>

\* ServerCtx::step: the Uninit and Partial arms go on to call
\* gss_accept_sec_context with the handle and the cloned delegated Cred
ServerCall(t) ==
    /\ pc[t] = "locked"
    /\ loc[t].who = "server"
    /\ ~ServerMatch(sInner).ret
    /\ loc' = [loc EXCEPT ![t].read = sInner,
                          ![t].ctx = ServerMatch(sInner).ctx,
                          ![t].cur = ServerMatch(sInner).cur]
    /\ arcs' = ArcClone(arcs, ServerMatch(sInner).cur)
    /\ nAccept' = nAccept + 1
    /\ pc' = [pc EXCEPT ![t] = "incall"]
    /\ UNCHANGED <<sInner, cInner, lock, res, ctxDeleted, credReleased,
                   nextCtx, nSteps, hs, nInit, nReused>>
    /\ UNCHANGED <<ownVars, fmtVars>>

\* gss_accept_sec_context returns: major, minor, the context handle, the
\* output token and the delegated credential handle are the library's
AcceptReturn(t) ==
    /\ pc[t] = "incall"
    /\ \E major \in Majors, minor \in Minors,
          out \in {0} \cup Tokens, deleg \in {NULL} \cup DelegHandles :
         \E ctxOut \in LibCtxOut(loc[t].ctx, major, nextCtx) :
            /\ ctxOut = NULL \/ ctxOut \in CtxHandles
            /\ loc' = [loc EXCEPT ![t].major = major, ![t].minor = minor,
                                  ![t].ctx = ctxOut, ![t].out = out,
                                  ![t].deleg = deleg]
            /\ nextCtx' = IF ctxOut = nextCtx THEN nextCtx + 1 ELSE nextCtx
    /\ pc' = [pc EXCEPT ![t] = "returned"]
    /\ UNCHANGED <<sInner, cInner, lock, res, arcs, ctxDeleted, credReleased,
                   nAccept, nSteps, hs, nInit, nReused>>
    /\ UNCHANGED <<ownVars, fmtVars>>

\* ServerCtx::step from the resolution of the delegated credential to the
\* return: the new state replaces the old one, which is dropped. The locals
\* are bound to their values once, as members of singleton sets.
ServerFinish(t) ==
    /\ pc[t] = "returned"
    /\ \E l \in {loc[t]} :
       \E r \in {ResolveDelegated(arcs, l.cur, l.deleg)}, k \in {Classify(l.major)} :
       \* the old state's delegated_cred, the Cred the resolution let go of
       \* and, when the state does not take it, the resolved Cred
       \E dropped \in {DropAll(r.arcs, credReleased,
                                <<sInner.deleg, r.drop,
                                  IF k = "Failed" THEN r.d ELSE 0>>)},
          del1 \in {DropInner(ctxDeleted, sInner)} :
       LET e == <<l.major, l.minor>>
           new == CASE k = "Failed" -> SFailed(e)
                    [] k = "Partial" -> SPartial(l.ctx, r.d)
                    [] k = "Complete" -> SComplete(l.ctx, r.d)
       IN /\ sInner' = new
          /\ ctxDeleted' = IF k = "Failed" THEN delete_ctx(del1, l.ctx) ELSE del1
          /\ arcs' = dropped.arcs
          /\ credReleased' = dropped.rel
          /\ nReused' = IF r.d # 0 /\ r.d = l.cur THEN nReused + 1 ELSE nReused
          /\ Return(t, CASE k = "Failed" -> Err(e)
                         [] k = "Partial" -> OkSome(l.out)
                         [] k = "Complete" -> OkNone,
                    k # "Failed")
    /\ UNCHANGED <<cInner, nAccept, nextCtx, nSteps, nInit>>
    /\ UNCHANGED <<ownVars, fmtVars>>

\* ClientCtx::step: the Failed and Complete arms return at once; after the
\* match the body ends, with no library call and no value
ClientBody(t) ==
    /\ pc[t] = "locked"
    /\ loc[t].who = "client"
    /\ Return(t, IF ClientMatch(cInner).ret THEN ClientMatch(cInner).val ELSE Unit,
              TRUE)
    /\ UNCHANGED <<sInner, cInner, arcs, ctxDeleted, credReleased,
                   nAccept, nextCtx, nSteps, nInit, nReused>>
    /\ UNCHANGED <<ownVars, fmtVars>>

\* the last clone of the ServerCtx goes: Drop for ServerCtxInner, then its
\* fields
ServerDrop ==
    /\ sInner.tag # "Dropped"
    /\ \A t \in Threads : loc[t].who # "server"
    /\ LET dropped == DropAll(arcs, credReleased, <<sInner.deleg>>)
       IN /\ arcs' = dropped.arcs
          /\ credReleased' = dropped.rel
    /\ ctxDeleted' = DropInner(ctxDeleted, sInner)
    /\ sInner' = Dropped
    /\ UNCHANGED <<cInner, lock, pc, loc, res, nAccept, nextCtx, nSteps, hs, nInit, nReused>>
    /\ UNCHANGED <<ownVars, fmtVars>>

Next ==
    \/ \E t \in Threads, who \in Contexts, tok \in {0} \cup Tokens :
          StepCall(t, who, tok)
    \/ \E t \in Threads : StepLock(t)
    \/ \E t \in Threads : ServerReturnEarly(t)
    \/ \E t \in Threads : ServerCall(t)
    \/ \E t \in Threads : AcceptReturn(t)
    \/ \E t \in Threads : ServerFinish(t)
    \/ \E t \in Threads : ClientBody(t)
    \/ ServerDrop

Spec == Init /\ [][Next]_vars

\* the steps of thread t inside a step call, from taking the lock to the
\* return
ThreadStep(t) ==
    \/ StepLock(t)
    \/ ServerReturnEarly(t)
    \/ ServerCall(t)
    \/ AcceptReturn(t)
    \/ ServerFinish(t)
    \/ ClientBody(t)

\* every thread inside step goes on running and every library call returns;
\* whether and when a caller starts a step or drops the context is left open
SpecFair == Spec /\ \A t \in Threads : WF_vars(ThreadStep(t))

---------------------------------------------------------------------------
(* Name, Cred and Buf operations of a caller *)

\* a live wrapper of allocation i exists
Live(i) == i \in 1..Len(own) /\ own[i].rc > 0

\* Ok(Name(Arc::new(NameInner(h)))) / Ok(Cred(Arc::new(CredInner(h)))) for
\* the handle the library has just written; by is the operation that made
\* it and of the allocation the handle was derived from (0 when it was
\* imported or acquired)
Wrap(kind, by, of) ==
    /\ own' = Append(own, [kind |-> kind, h |-> nextH, rc |-> 1, made |-> 1,
                           by |-> by, of |-> of])
    /\ nextH' = nextH + 1

\* Err(Error { major, minor }): nothing is wrapped
Fail ==
    UNCHANGED <<own, nextH>>

\* Name::new: gss_import_name
Name_new(ok) ==
    /\ Len(own) < MaxOwn
    /\ IF ok THEN Wrap("name", "new", 0) ELSE Fail
    /\ UNCHANGED <<ownReleased, bufs, acq, oidSets>>
    /\ UNCHANGED <<ctxVars, fmtVars>>

\* Name::canonicalize: gss_canonicalize_name writes a new name handle
Name_canonicalize(i, ok) ==
    /\ Live(i) /\ own[i].kind = "name"
    /\ Len(own) < MaxOwn
    /\ IF ok THEN Wrap("name", "canonicalize", i) ELSE Fail
    /\ UNCHANGED <<ownReleased, bufs, acq, oidSets>>
    /\ UNCHANGED <<ctxVars, fmtVars>>

\* Name::duplicate: gss_duplicate_name writes a new name handle
Name_duplicate(i, ok) ==
    /\ Live(i) /\ own[i].kind = "name"
    /\ Len(own) < MaxOwn
    /\ IF ok THEN Wrap("name", "duplicate", i) ELSE Fail
    /\ UNCHANGED <<ownReleased, bufs, acq, oidSets>>
    /\ UNCHANGED <<ctxVars, fmtVars>>

\* Clone for Name (derived) and cred.clone(): one more wrapper of the same
\* allocation; made counts the wrappers it ever had, at most MaxRefs
Wrapper_clone(i) ==
    /\ Live(i)
    /\ own[i].made < MaxRefs
    /\ own' = [ArcClone(own, i) EXCEPT ![i].made = @ + 1]
    /\ UNCHANGED <<ownReleased, nextH, bufs, acq, oidSets>>
    /\ UNCHANGED <<ctxVars, fmtVars>>

\* a wrapper goes out of scope: Drop for NameInner / CredInner runs when it
\* was the last one
Wrapper_drop(i) ==
    /\ Live(i)
    /\ LET dropped == DropAll(own, ownReleased, <<i>>)
       IN /\ own' = dropped.arcs
          /\ ownReleased' = dropped.rel
    /\ UNCHANGED <<nextH, bufs, acq, oidSets>>
    /\ UNCHANGED <<ctxVars, fmtVars>>

BufDropReleases_Always(ptr) == TRUE

\* Drop for Buf: gss_release_buffer is called unless the pointer is null
BufDropReleases(ptr) == ptr # NULL

\* the Buf b after it was dropped
BufDropped(b) ==
    [b EXCEPT !.live = FALSE,
              !.rel = IF BufDropReleases(b.ptr) THEN @ + 1 ELSE @]

\* Name::display: Buf::empty(), then gss_display_name, which writes the
\* pointer ptr into the buffer; on an error the Buf is dropped on return
Name_display(i, ok, ptr) ==
    /\ Live(i) /\ own[i].kind = "name"
    /\ Len(bufs) < MaxBufs
    /\ LET buf == [ptr |-> ptr, live |-> TRUE, rel |-> 0]
       IN bufs' = Append(bufs, IF ok THEN buf ELSE BufDropped(buf))
    /\ UNCHANGED <<own, ownReleased, nextH, acq, oidSets>>
    /\ UNCHANGED <<ctxVars, fmtVars>>

\* the caller drops a Buf it was given
Buf_drop(b) ==
    /\ b \in 1..Len(bufs)
    /\ bufs[b].live
    /\ bufs' = [bufs EXCEPT ![b] = BufDropped(bufs[b])]
    /\ UNCHANGED <<own, ownReleased, nextH, acq, oidSets>>
    /\ UNCHANGED <<ctxVars, fmtVars>>

\* name.map(|n| **n).unwrap_or(ptr::null_mut())
AcquireName(nameOpt) ==
    IF nameOpt = None THEN NULL ELSE own[Unwrap(nameOpt)].h

AcquireTimeReq_DefaultsToZero(timeOpt) ==
    IF timeOpt = None THEN <<0, 0>> ELSE Unwrap(timeOpt)

\* time_req.unwrap_or(_GSS_C_INDEFINITE)
AcquireTimeReq(timeOpt) ==
    IF timeOpt = None THEN GSS_C_INDEFINITE ELSE Unwrap(timeOpt)

\* match usage { Both => GSS_C_BOTH, Initiate => .., Accept => .. }
AcquireUsage(usage) ==
    CASE usage = "Both" -> GSS_C_BOTH
      [] usage = "Initiate" -> GSS_C_INITIATE
      [] usage = "Accept" -> GSS_C_ACCEPT

\* Cred::acquire. outcome is what the library does: OidSet::new fails, the
\* add of gss_mech_krb5 fails, gss_acquire_cred fails, or all succeed. The
\* OidSet is released when it goes out of scope.
Cred_acquire(nameOpt, timeOpt, usage, outcome) ==
    /\ nameOpt # None => (Live(Unwrap(nameOpt)) /\ own[Unwrap(nameOpt)].kind = "name")
    /\ Len(own) < MaxOwn
    /\ oidSets' = IF outcome = "oidNewFails" THEN oidSets
                  ELSE [created |-> 1, released |-> 1]
    /\ acq' = IF outcome \in {"oidNewFails", "oidAddFails"} THEN acq
              ELSE [called |-> TRUE, nameIn |-> nameOpt, timeIn |-> timeOpt,
                    usageIn |-> usage,
                    name |-> AcquireName(nameOpt),
                    time |-> AcquireTimeReq(timeOpt),
                    usage |-> AcquireUsage(usage)]
    /\ IF outcome = "ok" THEN Wrap("cred", "acquire", 0) ELSE Fail
    /\ UNCHANGED <<ownReleased, bufs>>
    /\ UNCHANGED <<ctxVars, fmtVars>>

AcquireOutcomes == {"oidNewFails", "oidAddFails", "acquireFails", "ok"}

\* a caller that imports, derives, clones and drops names and acquires,
\* clones and drops credentials
NextOwn ==
    \/ \E ok \in BOOLEAN : Name_new(ok)
    \/ \E i \in 1..MaxOwn, ok \in BOOLEAN : Name_canonicalize(i, ok)
    \/ \E i \in 1..MaxOwn, ok \in BOOLEAN : Name_duplicate(i, ok)
    \/ \E i \in 1..MaxOwn : Wrapper_clone(i)
    \/ \E i \in 1..MaxOwn : Wrapper_drop(i)
    \/ \E nameOpt \in {None} \cup {Some(i) : i \in 1..MaxOwn},
          timeOpt \in TimeReqs, usage \in CredUsages, outcome \in AcquireOutcomes :
          Cred_acquire(nameOpt, timeOpt, usage, outcome)

SpecOwn == Init /\ [][NextOwn]_vars

\* a caller that imports names, displays them and drops the names and the
\* buffers
NextBuf ==
    \/ \E ok \in BOOLEAN : Name_new(ok)
    \/ \E i \in 1..MaxOwn : Wrapper_drop(i)
    \/ \E i \in 1..MaxOwn, ok \in BOOLEAN, ptr \in {NULL, 1} : Name_display(i, ok, ptr)
    \/ \E b \in 1..MaxBufs : Buf_drop(b)

SpecBuf == Init /\ [][NextBuf]_vars

---------------------------------------------------------------------------
(* Error::fmt_code, one step per library call or write *)

\* fmt_code(f, code) is entered: message_context = 0, nothing written yet
FmtStart(code) ==
    /\ fmt.pc = "idle"
    /\ fmt' = [FmtIdle EXCEPT !.pc = "loop", !.code = code]
    /\ UNCHANGED <<ctxVars, ownVars>>

\* gss_display_status returns major, leaves cursor in message_context and,
\* when it succeeds, the text msg in the buffer
FmtDisplay(major, cursor, msg) ==
    /\ fmt.pc = "loop"
    /\ fmt.nDisplay < MaxMsgs
    /\ fmt' = [fmt EXCEPT !.nDisplay = @ + 1,
                          !.major = major,
                          !.cursor = cursor,
                          !.buf = IF major = GSS_S_COMPLETE THEN 1 ELSE NULL,
                          !.lib = IF major = GSS_S_COMPLETE THEN Append(@, msg) ELSE @,
                          !.pc = IF major = GSS_S_COMPLETE THEN "write" ELSE "unknown"]
    /\ UNCHANGED <<ctxVars, ownVars>>

WriteThen_ReturnsOnError(wrote) == IF wrote THEN "release" ELSE "returned"

\* what follows let res = write!(..): the release of the buffer, whatever
\* res is
WriteThen(wrote) == "release"

\* let res = write!(f, "gssapi error {}\n", s); the formatter takes the line
\* (ok) or fails
FmtWrite(ok) ==
    /\ fmt.pc = "write"
    /\ fmt' = [fmt EXCEPT !.wrote = ok,
                          !.out = IF ok THEN Append(@, ErrorLine(fmt.lib[Len(fmt.lib)])) ELSE @,
                          !.pc = WriteThen(ok),
                          !.result = IF WriteThen(ok) = "returned" THEN "Err" ELSE @]
    /\ UNCHANGED <<ctxVars, ownVars>>

\* after gss_release_buffer: panic! on a non-success status, else res?
AfterRelease(relMajor, wrote) ==
    IF relMajor # GSS_S_COMPLETE THEN "panicked"
    ELSE IF ~wrote THEN "returned" ELSE "check"

\* gss_release_buffer returns relMajor; then the panic test and res?
FmtRelease(relMajor) ==
    /\ fmt.pc = "release"
    /\ fmt' = [fmt EXCEPT !.nRelease = @ + 1,
                          !.buf = NULL,
                          !.relMajor = relMajor,
                          !.pc = AfterRelease(relMajor, fmt.wrote),
                          !.result = CASE AfterRelease(relMajor, fmt.wrote) = "panicked" -> "panic"
                                       [] AfterRelease(relMajor, fmt.wrote) = "returned" -> "Err"
                                       [] OTHER -> @]
    /\ UNCHANGED <<ctxVars, ownVars>>

LoopEnds_AfterOneMessage(cursor) == TRUE

\* if message_context == 0 { break; }
LoopEnds(cursor) == cursor = 0

\* the test at the end of the loop body, then Ok(()) or the next iteration
FmtCheck ==
    /\ fmt.pc = "check"
    /\ fmt' = IF LoopEnds(fmt.cursor)
              THEN [fmt EXCEPT !.pc = "returned", !.result = "Ok"]
              ELSE [fmt EXCEPT !.pc = "loop"]
    /\ UNCHANGED <<ctxVars, ownVars>>

UnknownThen_LoopsOnCursor(cursor) == IF cursor = 0 THEN "returned" ELSE "loop"

\* the else arm ends in break, whatever message_context holds
UnknownThen(cursor) == "returned"

\* write!(f, "gssapi unknown error code {}\n", code)?; break;
FmtUnknown(ok) ==
    /\ fmt.pc = "unknown"
    /\ fmt' = IF ok
              THEN [fmt EXCEPT !.out = Append(@, UnknownLine(fmt.code)),
                               !.pc = UnknownThen(fmt.cursor),
                               !.result = IF UnknownThen(fmt.cursor) = "returned"
                                          THEN "Ok" ELSE @]
              ELSE [fmt EXCEPT !.pc = "returned", !.result = "Err"]
    /\ UNCHANGED <<ctxVars, ownVars>>

NextFmt ==
    \/ \E code \in Codes : FmtStart(code)
    \/ \E major \in FmtMajors, cursor \in Cursors, msg \in Msgs :
          FmtDisplay(major, cursor, msg)
    \/ \E ok \in BOOLEAN : FmtWrite(ok)
    \/ \E relMajor \in FmtMajors : FmtRelease(relMajor)
    \/ FmtCheck
    \/ \E ok \in BOOLEAN : FmtUnknown(ok)

SpecFmt == Init /\ [][NextFmt]_vars

---------------------------------------------------------------------------
(* Properties *)

\* every call into the underlying library that the model counts
LibCalls == <<nAccept, nInit, ctxDeleted, credReleased>>

\* thread t leaves the body of a step that found its context in state tag
LeavesBodyIn(t, tag) ==
    /\ pc[t] = "locked"
    /\ pc'[t] # "locked"
    /\ Inner(loc[t].who).tag = tag

\* C1: for ServerCtx and ClientCtx, once the state is Complete every later
\* step returns Ok(None), leaves the state Complete with the same context
\* handle, and calls nothing in the underlying library.
C1_CompleteIsIdempotent ==
    [][ /\ (sInner.tag = "Complete" /\ sInner'.tag # "Dropped" => sInner' = sInner)
        /\ (cInner.tag = "Complete" => cInner' = cInner)
        /\ \A t \in Threads :
              LeavesBodyIn(t, "Complete") =>
                 /\ pc'[t] = "idle"
                 /\ res'[t] = OkNone
                 /\ LibCalls' = LibCalls ]_vars

\* a step has returned Ok(None) from a context that was already Complete:
\* one accept call was made, and both threads' steps returned Ok(None)
C1_Witness ==
    /\ sInner.tag = "Complete"
    /\ nAccept = 1
    /\ \A t \in Threads : res[t] = OkNone

\* C2: for ServerCtx and ClientCtx, once the state is Failed(e) it stays
\* Failed(e), and every later step returns Err(e), the (major, minor) pair
\* of the step that failed, without calling the underlying library.
C2_FailedIsPermanent ==
    [][ /\ (sInner.tag = "Failed" /\ sInner'.tag # "Dropped" => sInner' = sInner)
        /\ (cInner.tag = "Failed" => cInner' = cInner)
        /\ \A t \in Threads :
              /\ LeavesBodyIn(t, "Failed") =>
                    /\ pc'[t] = "idle"
                    /\ res'[t] = Err(Inner(loc[t].who).err)
                    /\ LibCalls' = LibCalls
              /\ (pc[t] = "returned" /\ pc'[t] = "idle" /\ sInner'.tag = "Failed") =>
                    /\ sInner'.err = <<loc[t].major, loc[t].minor>>
                    /\ res'[t] = Err(sInner'.err) ]_vars

\* a step failed with GSS_S_FAILURE and minor 1, and a later step on the
\* failed context returned the same pair: one accept call, two Err results
C2_Witness ==
    /\ sInner = SFailed(<<851968, 1>>)
    /\ nAccept = 1
    /\ \A t \in Threads : res[t] = Err(<<851968, 1>>)

\* C3: over any sequence of ServerCtx steps followed by the destruction of
\* the context, gss_delete_sec_context is called at most once for each
\* context handle, and never for a handle the state still holds.
C3_ContextDeletedAtMostOnce ==
    /\ \A h \in CtxHandles : ctxDeleted[h] <= 1
    /\ sInner.tag \in {"Partial", "Complete"} /\ sInner.ctx # NULL =>
          ctxDeleted[sInner.ctx] = 0

\* C4: the ServerCtx state holds a live context handle if and only if it
\* is Partial or Complete: Uninit and Failed hold none, a step that ended in
\* Failed has deleted the handle the library produced, and a handle held in
\* Partial or Complete has not been deleted.
C4_LiveHandleIffPartialOrComplete ==
    /\ sInner.tag \in {"Uninit", "Failed"} => sInner.ctx = NULL
    /\ sInner.tag = "Failed" => \A h \in 1..(nextCtx - 1) : ctxDeleted[h] >= 1
    /\ sInner.tag \in {"Partial", "Complete"} =>
          /\ sInner.ctx # NULL
          /\ ctxDeleted[sInner.ctx] = 0

\* C5: a ServerCtx step that called the library classifies the major status
\* in this order: any calling-error or routine-error bit (bits 16 to 31)
\* gives Failed(major, minor) and Err with both codes, also when the
\* continue-needed bit is set; otherwise the continue-needed bit (bit 0)
\* gives Partial and Ok(Some(output token)); otherwise Complete and Ok(None).
C5_ClassificationOrder ==
    [][ \A t \in Threads :
           (pc[t] = "returned" /\ pc'[t] = "idle") =>
              LET major == loc[t].major
                  minor == loc[t].minor
              IN IF major \div 65536 # 0
                 THEN /\ sInner' = SFailed(<<major, minor>>)
                      /\ res'[t] = Err(<<major, minor>>)
                 ELSE IF major % 2 = 1
                 THEN /\ sInner'.tag = "Partial"
                      /\ res'[t] = OkSome(loc[t].out)
                 ELSE /\ sInner'.tag = "Complete"
                      /\ res'[t] = OkNone ]_vars

\* a step ended in Failed on a major status that carries an error bit and
\* the continue-needed bit
C5_Witness ==
    /\ sInner.tag = "Failed"
    /\ sInner.err[1] = 851969
    /\ \E t \in Threads : res[t] = Err(sInner.err)

\* C6: when gss_accept_sec_context reports success without the
\* continue-needed bit and has written a non-empty output token, the step
\* transitions to Complete and returns that token.
C6_FinalTokenReturned ==
    [][ \A t \in Threads :
           ( /\ pc[t] = "returned" /\ pc'[t] = "idle"
             /\ loc[t].major \div 65536 = 0
             /\ loc[t].major % 2 = 0
             /\ loc[t].out # 0 ) =>
              /\ sInner'.tag = "Complete"
              /\ res'[t] = OkSome(loc[t].out) ]_vars

InStep == {"locked", "incall", "returned"}

\* C7: concurrent step calls on one context are serialized: a thread that
\* is between the read of the state and the write of the new state holds
\* the lock, no other thread is there on the same context, at most one
\* accept call is in flight, and the state is still the state the thread
\* read.
C7_StepsSerialized ==
    /\ \A t \in Threads : pc[t] \in InStep => lock[loc[t].who] = t
    /\ \A t, u \in Threads :
          (t # u /\ pc[t] \in InStep /\ pc[u] \in InStep) => loc[t].who # loc[u].who
    /\ Cardinality({t \in Threads : pc[t] = "incall"}) <= 1
    /\ \A t \in Threads : pc[t] \in {"incall", "returned"} => sInner = loc[t].read

\* one thread is inside the accept call while the other has called step on
\* the same ServerCtx and waits for the lock
C7_Witness ==
    \E t, u \in Threads :
       /\ pc[t] = "incall" /\ loc[t].who = "server"
       /\ pc[u] = "waiting" /\ loc[u].who = "server"

\* C8: if a Partial ServerCtx tracks a delegated Cred for handle H and the
\* next accept call reports the same non-null H, the delegated Cred held
\* after the step (a step that fails holds none) is the same Arc
\* allocation, and no other live allocation owns H.
C8_DelegatedWrapperReused ==
    [][ \A t \in Threads :
           ( /\ pc[t] = "returned" /\ pc'[t] = "idle"
             /\ sInner.tag = "Partial"
             /\ sInner.deleg # 0
             /\ loc[t].deleg # NULL
             /\ arcs[sInner.deleg].h = loc[t].deleg ) =>
              /\ sInner'.tag \in {"Partial", "Complete"} =>
                    /\ sInner'.deleg = sInner.deleg
                    /\ arcs'[sInner.deleg].rc = 1
              /\ \A i \in 1..Len(arcs') :
                    (arcs'[i].rc > 0 /\ arcs'[i].h = loc[t].deleg) => i = sInner.deleg
       ]_vars

\* a step has kept the tracked delegated Cred and the state holds it
C8_Witness ==
    /\ nReused >= 1
    /\ sInner.tag \in {"Partial", "Complete"}
    /\ sInner.deleg # 0
    /\ Len(arcs) = 1
    /\ nAccept = 2

\* C9: a ClientCtx step in Uninit with no incoming token calls
\* gss_init_sec_context (with a null context handle) and returns
\* Ok(Some(first outgoing token)); each later step in Partial returns a
\* reply token until the continue-needed bit clears.
C9_ClientFirstStepYieldsToken ==
    [][ \A t \in Threads :
           ( /\ LeavesBodyIn(t, "Uninit")
             /\ loc[t].who = "client"
             /\ loc[t].tok = 0 ) =>
              /\ nInit' = nInit + 1
              /\ res'[t].kind = "OkSome" ]_vars

\* C10: after client step(None), server step(T1) and client step(Some(T2)),
\* with a library that reported no error, both contexts are Complete.
C10_HandshakeCompletes ==
    hs = 3 => (sInner.tag = "Complete" /\ cInner.tag = "Complete")

---------------------------------------------------------------------------
(* Properties of names, credentials and buffers *)

\* C11: the handle of a Name or Cred is released exactly once, when the last
\* wrapper sharing it is dropped and not while one still references it; a
\* clone adds a wrapper of the same handle, whereas every import,
\* canonicalize, duplicate or acquire has a handle of its own, so that the
\* release of a duplicate is independent of the release of its original.
C11_ReleasedOnceAtLastDrop ==
    /\ \A i \in 1..Len(own) :
          /\ own[i].rc >= 0
          /\ own[i].rc <= own[i].made
          /\ ownReleased[own[i].h] = IF own[i].rc = 0 THEN 1 ELSE 0
    /\ \A i, j \in 1..Len(own) : i # j => own[i].h # own[j].h
    /\ Len(own) = nextH - 1

\* a name that was cloned and had all its wrappers dropped is released,
\* while its duplicate is still held and not released
C11_Witness ==
    \E i, j \in 1..Len(own) :
        /\ own[i].made >= 2 /\ own[i].rc = 0 /\ ownReleased[own[i].h] = 1
        /\ own[j].by = "duplicate" /\ own[j].of = i
        /\ own[j].rc > 0 /\ ownReleased[own[j].h] = 0

\* C12: a dropped Buf whose pointer is null has made no release-buffer call,
\* a dropped Buf whose pointer is non-null has made exactly one, and a Buf
\* that is still held has made none.
C12_BufReleasedUnlessNull ==
    \A b \in 1..Len(bufs) :
        /\ bufs[b].live => bufs[b].rel = 0
        /\ (~bufs[b].live /\ bufs[b].ptr = NULL) => bufs[b].rel = 0
        /\ (~bufs[b].live /\ bufs[b].ptr # NULL) => bufs[b].rel = 1

\* an empty Buf that the library never filled and a filled one have been
\* dropped
C12_Witness ==
    \E b, c \in 1..Len(bufs) :
        /\ ~bufs[b].live /\ bufs[b].ptr = NULL /\ bufs[b].rel = 0
        /\ ~bufs[c].live /\ bufs[c].ptr # NULL /\ bufs[c].rel = 1

\* C15: the lifetime passed to gss_acquire_cred is 0xffffffff (indefinite),
\* not zero, when time_req is None, and the supplied lifetime otherwise; the
\* name passed is the null handle when name is None, and the handle of the
\* supplied name otherwise.
C15_AcquireDefaults ==
    acq.called =>
        /\ acq.timeIn = {} => (acq.time = <<65535, 65535>> /\ acq.time # <<0, 0>>)
        /\ \A t \in acq.timeIn : acq.time = t
        /\ acq.nameIn = {} => acq.name = 0
        /\ \A i \in acq.nameIn : acq.name = own[i].h /\ acq.name # 0

\* gss_acquire_cred was called for name = None and time_req = None
C15_Witness ==
    /\ acq.called
    /\ acq.timeIn = {} /\ acq.nameIn = {}

---------------------------------------------------------------------------
(* Properties of Error::fmt_code *)

\* fmt_code has returned or panicked
FmtStopped(f) == f.pc \in {"returned", "panicked"}

\* one "gssapi error" line per message the library returned, in its order
LinesOf(lib) == [i \in 1..Len(lib) |-> ErrorLine(lib[i])]

\* a status-description call that is not the first follows a successful call
\* that left the cursor non-zero
FmtCallsOnlyWhileCursorNonZero ==
    (fmt'.nDisplay > fmt.nDisplay /\ fmt.nDisplay > 0)
        => (fmt.major = GSS_S_COMPLETE /\ fmt.cursor # 0)

\* C13 as stated: one line per message in the library's order; no further
\* status-description call once a call has left the cursor at zero; and
\* fmt_code never stops while the last call succeeded and left the cursor
\* non-zero.
C13_StopsExactlyAtCursorZero ==
    [][/\ FmtCallsOnlyWhileCursorNonZero
       /\ (FmtStopped(fmt') /\ fmt'.major = GSS_S_COMPLETE) => fmt'.cursor = 0
       /\ (fmt'.pc \in {"release", "check", "loop", "returned", "panicked"}
              /\ fmt'.major = GSS_S_COMPLETE)
           => fmt'.out = LinesOf(fmt'.lib)]_vars

\* C13, amended: the same, as long as the write to the formatter and the
\* release of the message buffer succeed; fmt_code stops with the cursor
\* non-zero after a successful call only when the write failed (it returns
\* the error) or the release failed (it panics), and only the line of a
\* failed write is missing.
C13_StopsAtCursorZeroUnlessWriteOrReleaseFails ==
    [][/\ FmtCallsOnlyWhileCursorNonZero
       /\ (FmtStopped(fmt') /\ fmt'.major = GSS_S_COMPLETE
              /\ fmt'.wrote /\ fmt'.relMajor = GSS_S_COMPLETE)
           => (fmt'.cursor = 0 /\ fmt'.result = "Ok")
       /\ (FmtStopped(fmt') /\ fmt'.major = GSS_S_COMPLETE /\ ~fmt'.wrote
              /\ fmt'.relMajor = GSS_S_COMPLETE)
           => fmt'.result = "Err"
       /\ (FmtStopped(fmt') /\ fmt'.major = GSS_S_COMPLETE
              /\ fmt'.relMajor # GSS_S_COMPLETE)
           => fmt'.result = "panic"
       /\ (fmt'.pc \in {"release", "check", "loop", "returned", "panicked"}
              /\ fmt'.major = GSS_S_COMPLETE)
           => IF fmt'.wrote THEN fmt'.out = LinesOf(fmt'.lib)
              ELSE fmt'.out = LinesOf(SubSeq(fmt'.lib, 1, Len(fmt'.lib) - 1))]_vars

\* fmt_code returned Ok after two calls with different messages, the first
\* leaving the cursor non-zero, and wrote both lines in order
C13_Witness ==
    /\ fmt.pc = "returned" /\ fmt.result = "Ok"
    /\ fmt.nDisplay = 2 /\ fmt.cursor = 0
    /\ Len(fmt.lib) = 2 /\ fmt.lib[1] # fmt.lib[2]
    /\ fmt.out = <<ErrorLine(fmt.lib[1]), ErrorLine(fmt.lib[2])>>

\* C14: when gss_display_status returns a non-success status, fmt_code
\* writes one "unknown error code" line for the code and returns, with no
\* further status-description call, whatever the cursor holds; once it has
\* returned nothing more happens.
C14_UnknownCodeEndsLoop ==
    [][/\ (fmt'.nDisplay > fmt.nDisplay /\ fmt'.major # GSS_S_COMPLETE)
           => fmt'.pc = "unknown"
       /\ fmt.pc = "unknown"
           => /\ fmt'.pc = "returned"
              /\ fmt'.nDisplay = fmt.nDisplay
              /\ fmt'.out \in {fmt.out, Append(fmt.out, UnknownLine(fmt.code))}
              /\ fmt'.result = "Ok" <=> fmt'.out = Append(fmt.out, UnknownLine(fmt.code))
       /\ ~FmtStopped(fmt)]_vars

\* the second call failed and left the cursor non-zero; fmt_code has
\* returned after one message line and one "unknown error code" line
C14_Witness ==
    /\ fmt.pc = "returned" /\ fmt.result = "Ok"
    /\ fmt.major # GSS_S_COMPLETE /\ fmt.cursor # 0
    /\ fmt.nDisplay = 2
    /\ Len(fmt.out) = 2 /\ fmt.out[2] = UnknownLine(fmt.code)

\* C17: the buffer of a successful status-description call is released
\* exactly once: it is live while the line is written and until the
\* release, and released (once per successful call) before the next call
\* and before fmt_code returns or panics, also when the write failed; and
\* fmt_code has panicked exactly when a release returned non-success.
C17_BufferReleasedOncePerMessage ==
    /\ fmt.nRelease <= Len(fmt.lib)
    /\ fmt.pc \in {"write", "release"}
        => (fmt.buf # NULL /\ fmt.nRelease = Len(fmt.lib) - 1)
    /\ fmt.pc \in {"loop", "check", "unknown", "returned", "panicked"}
        => (fmt.buf = NULL /\ fmt.nRelease = Len(fmt.lib))
    /\ fmt.pc = "panicked" <=> fmt.relMajor # GSS_S_COMPLETE

\* the write of the second message failed; its buffer was released and
\* fmt_code returned the error
C17_Witness ==
    /\ fmt.pc = "returned" /\ fmt.result = "Err"
    /\ fmt.major = GSS_S_COMPLETE /\ ~fmt.wrote
    /\ Len(fmt.lib) = 2 /\ fmt.nRelease = 2 /\ fmt.buf = NULL

---------------------------------------------------------------------------
(* Further properties of ServerCtx::step and ClientCtx::step *)

\* C16: the context handle a step passes to gss_accept_sec_context is null
\* exactly when the state is Uninit; in Partial it is the handle the state
\* holds; and the handle a non-failing step stores is the one the library
\* left in the handle argument of that call.
C16_HandlePassedAndStored ==
    [][\A t \in Threads :
          /\ (pc[t] = "locked" /\ pc'[t] = "incall")
              => /\ loc'[t].ctx = NULL <=> sInner.tag = "Uninit"
                 /\ sInner.tag = "Partial" => loc'[t].ctx = sInner.ctx
          /\ (pc[t] = "returned" /\ pc'[t] = "idle"
                 /\ sInner'.tag \in {"Partial", "Complete"})
              => sInner'.ctx = loc[t].ctx]_vars

\* a second step is inside the accept call with the handle the first step
\* stored
C16_Witness ==
    \E t \in Threads :
        /\ pc[t] = "incall"
        /\ sInner.tag = "Partial"
        /\ loc[t].ctx # NULL /\ loc[t].ctx = sInner.ctx
        /\ nAccept = 2

\* the lock of a context is held only by a thread inside step on it
LockHeldOnlyInStep ==
    \A c \in Contexts :
        lock[c] # NoThread
            => (pc[lock[c]] \in {"locked", "incall", "returned"}
                   /\ loc[lock[c]].who = c)

\* C18: no thread outside step holds a lock, and every step call, on the
\* server or the client context, eventually returns, also one that had to
\* wait for the lock.
C18_EveryStepReturns ==
    /\ []LockHeldOnlyInStep
    /\ \A t \in Threads : (pc[t] # "idle") ~> (pc[t] = "idle")

\* a step waits for the lock of the ServerCtx while another thread is
\* inside the accept call
C18_Witness ==
    \E t, u \in Threads :
        /\ pc[t] = "waiting" /\ loc[t].who = "server"
        /\ pc[u] = "incall" /\ lock["server"] = u

\* C19: a step changes the phase of a ServerCtx only from Uninit to
\* Partial, Complete or Failed, or from Partial to Partial, Complete or
\* Failed; Complete and Failed are kept, and nothing leads back to Uninit.
C19_PhaseMovesForward ==
    [][sInner'.tag # "Dropped" =>
          CASE sInner.tag = "Uninit" ->
                  sInner'.tag \in {"Uninit", "Partial", "Complete", "Failed"}
            [] sInner.tag = "Partial" ->
                  sInner'.tag \in {"Partial", "Complete", "Failed"}
            [] sInner.tag = "Complete" -> sInner'.tag = "Complete"
            [] sInner.tag = "Failed" -> sInner'.tag = "Failed"
            [] OTHER -> FALSE]_vars

\* the context went from Uninit over Partial to Failed, and a further step
\* has returned the error
C19_Witness ==
    /\ sInner.tag = "Failed"
    /\ nAccept = 2 /\ nSteps = 3
    /\ \E t \in Threads : res[t] = Err(sInner.err) /\ pc[t] = "idle"
    /\ \A t \in Threads : pc[t] = "idle"

\* C20: every delegated Cred allocation of the context has made one
\* gss_release_cred call once no reference to it is left and none before;
\* a Failed context holds no delegated Cred and none of its allocations is
\* referenced any more; and a step whose call reports a handle other than
\* the tracked one, or null, releases the tracked Cred in that step.
C20_DelegatedReleasedOnce ==
    [][/\ \A i \in 1..Len(arcs') : arcs'[i].rc >= 0
       /\ \A h \in DelegHandles :
             credReleased'[h] =
                 Cardinality({i \in 1..Len(arcs') : arcs'[i].h = h /\ arcs'[i].rc = 0})
       /\ sInner'.tag = "Failed"
             => (sInner'.deleg = 0 /\ \A i \in 1..Len(arcs') : arcs'[i].rc = 0)
       /\ \A t \in Threads :
             (pc[t] = "returned" /\ pc'[t] = "idle" /\ loc[t].cur # 0
                 /\ loc[t].deleg # arcs[loc[t].cur].h)
             => /\ arcs'[loc[t].cur].rc = 0
                /\ credReleased'[arcs[loc[t].cur].h]
                       = credReleased[arcs[loc[t].cur].h] + 1]_vars

\* the context tracked one delegated credential, the failing call reported
\* another, and both have been released once
C20_Witness ==
    /\ sInner.tag = "Failed"
    /\ Len(arcs) = 2
    /\ arcs[1].h # arcs[2].h
    /\ arcs[1].rc = 0 /\ arcs[2].rc = 0
    /\ credReleased[arcs[1].h] = 1 /\ credReleased[arcs[2].h] = 1

====
